---- MODULE Spec2Model ----
(***************************************************************************)
(* Model of the audio capture / playback class of src/audio.py: one Audio  *)
(* object, the coordinator thread that calls its methods, the capture      *)
(* threads that Audio.record starts, and the host audio layer (PyAudio)    *)
(* and the waveform file the object acts on.                               *)
(***************************************************************************)
EXTENDS Integers, Sequences, FiniteSets, TLC

\* ------------------------------------------------------------------ bounds
\* Most devices the host layer reports.
MaxDevices == 3
\* Most enumerations of one Audio object in the device specification.
MaxEnum == 2
\* Most calls of record / play / _write_to_file on one Audio object.
MaxCalls == 2
\* Most frames in the file a Converter is given.
MaxConvFrames == 3
\* Frames per readframes call of the Converter, scaled down from 4000.
ConvChunkFrames == 2
\* Most hardware reads that complete over the life of the object.
MaxChunks == 2
\* frames_per_buffer, scaled down from 4096.
FramesPerBuffer == 2

\* ------------------------------------------------- program constants
\* Audio.__init__ defaults.
Channels == 1
SampleRate == 16000
\* pyaudio.get_sample_size(paInt16)
SampleWidth == 2

\* Channel counts a host device may report.
ChannelCounts == {0, 1, 2}

\* ------------------------------------------------------------ host layer
\* The devices the host reports: device i is devs[i + 1], named by its index.
DeviceInfoOf(i, caps) ==
    [name |-> i, maxInputChannels |-> caps[1], maxOutputChannels |-> caps[2]]

DeviceLists ==
    UNION { { [i \in 1 .. n |-> DeviceInfoOf(i - 1, c[i])] :
                c \in [1 .. n -> ChannelCounts \X ChannelCounts] }
            : n \in 0 .. MaxDevices }

\* The devices with a capability, by index.
InputIds(devs) == { i - 1 : i \in { j \in 1 .. Len(devs) : devs[j].maxInputChannels > 0 } }
OutputIds(devs) == { i - 1 : i \in { j \in 1 .. Len(devs) : devs[j].maxOutputChannels > 0 } }

\* The default the host reports: here the first device with the capability,
\* -1 when there is none (the lookup then fails).
FirstOf(ids) == IF ids = {} THEN -1 ELSE CHOOSE i \in ids : \A j \in ids : i <= j

\* Hosts of the device specification: every device list within the bounds.
AllHosts ==
    { [devs |-> d, defaultIn |-> FirstOf(InputIds(d)), defaultOut |-> FirstOf(OutputIds(d))] :
        d \in DeviceLists }

\* The host of spec.md section 8: device 0 = 2/0, device 1 = 0/2, device 2 = 1/1.
ExampleDevices ==
    << [name |-> 0, maxInputChannels |-> 2, maxOutputChannels |-> 0],
       [name |-> 1, maxInputChannels |-> 0, maxOutputChannels |-> 2],
       [name |-> 2, maxInputChannels |-> 1, maxOutputChannels |-> 1] >>

\* Hosts of the session specification: the example devices, with the first
\* capable devices as defaults, or the device that is both.
SessionHosts ==
    { [devs |-> ExampleDevices, defaultIn |-> 0, defaultOut |-> 1],
      [devs |-> ExampleDevices, defaultIn |-> 2, defaultOut |-> 2] }

VARIABLES
    host,             \* the host audio layer: devices and default devices
    handles,          \* PyAudio instances created so far: TRUE = not terminated
    streams,          \* streams opened so far: [input, device, handle, open]
    file,             \* the waveform file at self.filepath
    recording,        \* self.recording
    recorded_frames,  \* self.recorded_frames
    pyaudio_obj,      \* self.pyaudio_obj: index into handles, 0 = not set
    audio_stream,     \* self.audio_stream: index into streams, 0 = None
    microphones,      \* self.microphones
    speakers,         \* self.speakers
    pc,               \* where the coordinator is
    op,               \* the method the coordinator is in, or was in last
    device_index,     \* local of record / play: -1 = None
    thread,           \* local of record: index into threads, 0 = none
    data,             \* local of play: the chunk read from the file
    pos,              \* frames of the file played so far (read position)
    threads,          \* capture threads started so far: [pc, stream, data] and
                      \* late, history: chunks appended after the stop signal
    readLog,          \* history: chunks in the order the reads completed
    played,           \* history: chunks written to the output stream
    calls,            \* history: calls made on the object
    enumCalls,        \* history: enumerations made on the object
    exit,             \* history: how the last call ended
    faulted,          \* history: some call has ended with an error
    lastWrite,        \* history: what held when the file was last serialized
    conv              \* a Converter object and the files it reads and writes

vars == << host, handles, streams, file, recording, recorded_frames, pyaudio_obj,
           audio_stream, microphones, speakers, pc, op, device_index, thread,
           data, pos, threads, readLog, played, calls, enumCalls, exit, faulted,
           lastWrite, conv >>

\* The variables of the Audio object and its host.
audioVars == << host, handles, streams, file, recording, recorded_frames,
                pyaudio_obj, audio_stream, microphones, speakers, pc, op,
                device_index, thread, data, pos, threads, readLog, played, calls,
                enumCalls, exit, faulted, lastWrite >>

NoFile == [exists |-> FALSE, nchannels |-> 0, sampwidth |-> 0, framerate |-> 0,
           payload |-> << >>]

NoWrite == [by |-> "none", state |-> "none", threadAlive |-> FALSE, streamOpen |-> FALSE]

\* Audio.__init__ on a host; nothing is opened yet.
InitObject ==
    /\ recording = TRUE
    /\ recorded_frames = << >>
    /\ pyaudio_obj = 0
    /\ audio_stream = 0
    /\ microphones = << >>
    /\ speakers = << >>
    /\ handles = << >>
    /\ streams = << >>
    /\ file = NoFile
    /\ pc = "idle"
    /\ op = "none"
    /\ device_index = -1
    /\ thread = 0
    /\ data = << >>
    /\ pos = 0
    /\ threads = << >>
    /\ readLog = << >>
    /\ played = << >>
    /\ calls = 0
    /\ enumCalls = 0
    /\ exit = "none"
    /\ faulted = FALSE
    /\ lastWrite = NoWrite

\* --------------------------------------------------- device enumeration
\* Audio._get_available_devices: the loop over range(get_device_count()),
\* from device i on, appending to the lists it is given.
RECURSIVE EnumerateFrom(_, _, _, _)
EnumerateFrom(devs, i, mics, spks) ==
    IF i >= Len(devs) THEN [microphones |-> mics, speakers |-> spks]
    ELSE LET info == devs[i + 1]
             device_dict == [id |-> i, name |-> info.name]
             mics2 == IF info.maxInputChannels > 0 THEN Append(mics, device_dict) ELSE mics
             spks2 == IF info.maxOutputChannels > 0 THEN Append(spks, device_dict) ELSE spks
         IN EnumerateFrom(devs, i + 1, mics2, spks2)

RECURSIVE EnumerateAnyOutput(_, _, _, _)
EnumerateAnyOutput(devs, i, mics, spks) ==
    IF i >= Len(devs) THEN [microphones |-> mics, speakers |-> spks]
    ELSE LET info == devs[i + 1]
             device_dict == [id |-> i, name |-> info.name]
             mics2 == IF info.maxInputChannels > 0 THEN Append(mics, device_dict) ELSE mics
             spks2 == IF info.maxOutputChannels >= 0 THEN Append(spks, device_dict) ELSE spks
         IN EnumerateAnyOutput(devs, i + 1, mics2, spks2)

GetAvailableDevicesAnyOutput(devs, mics, spks) == EnumerateAnyOutput(devs, 0, mics, spks)

\* The lists after one call of _get_available_devices: the loop starts from
\* the lists the object already holds.
GetAvailableDevices(devs, mics, spks) == EnumerateFrom(devs, 0, mics, spks)

\* The ids of a device list, in list order.
Ids(devices) == [k \in 1 .. Len(devices) |-> devices[k].id]
IdSet(devices) == { devices[k].id : k \in 1 .. Len(devices) }

\* The state change of _get_available_devices.
DoEnumerate ==
    LET r == GetAvailableDevices(host.devs, microphones, speakers)
    IN /\ microphones' = r.microphones
       /\ speakers' = r.speakers
       /\ enumCalls' = enumCalls + 1

\* A direct call of _get_available_devices.
GetAvailableDevicesCall ==
    /\ pc = "idle"
    /\ enumCalls < MaxEnum
    /\ DoEnumerate
    /\ exit' = "ok"
    /\ UNCHANGED << conv, host, handles, streams, file, recording, recorded_frames,
                    pyaudio_obj, audio_stream, pc, op, device_index, thread, data,
                    pos, threads, readLog, played, calls, faulted, lastWrite >>

\* A direct call of _select_device(record): enumerate, then prompt.
SelectDeviceCall(record) ==
    /\ pc = "idle"
    /\ enumCalls < MaxEnum
    /\ DoEnumerate
    /\ pc' = "select"
    /\ op' = IF record THEN "select_record" ELSE "select_play"
    /\ device_index' = -1
    /\ exit' = "none"
    /\ UNCHANGED << conv, host, handles, streams, file, recording, recorded_frames,
                    pyaudio_obj, audio_stream, thread, data, pos, threads,
                    readLog, played, calls, faulted, lastWrite >>

\* The list _select_device prompts with.
PromptDevices == IF op \in {"select_record", "record"} THEN microphones ELSE speakers

\* The prompt loop of a direct _select_device ends with an index of the list;
\* answers that are no number or not in the list change nothing and prompt again.
SelectDeviceReturn(index) ==
    /\ pc = "select"
    /\ op \in {"select_record", "select_play"}
    /\ index \in IdSet(PromptDevices)
    /\ device_index' = index
    /\ pc' = "idle"
    /\ exit' = "ok"
    /\ UNCHANGED << conv, host, handles, streams, file, recording, recorded_frames,
                    pyaudio_obj, audio_stream, microphones, speakers, op, thread, data,
                    pos, threads, readLog, played, calls, enumCalls, faulted,
                    lastWrite >>

\* input() raises (EOFError, KeyboardInterrupt) at the device prompt.
SelectInterrupt ==
    /\ pc = "select"
    /\ pc' = "idle"
    /\ exit' = "error"
    /\ faulted' = TRUE
    /\ UNCHANGED << conv, host, handles, streams, file, recording, recorded_frames,
                    pyaudio_obj, audio_stream, microphones, speakers, op, device_index,
                    thread, data, pos, threads, readLog, played, calls, enumCalls,
                    lastWrite >>

\* ------------------------------------------------------ stream lifecycle
\* get_default_input_device_info()['index'] when no index is passed.
ResolveInput(input_device_index) ==
    IF input_device_index = -1 THEN host.defaultIn ELSE input_device_index

ResolveOutput(output_device_index) ==
    IF output_device_index = -1 THEN host.defaultOut ELSE output_device_index

\* The stream pyaudio_obj.open returns in _open_audio_stream: input=record,
\* output=not record, on the device of its direction.
OpenedStream(record, input_device_index, output_device_index) ==
    [input |-> record,
     device |-> IF record THEN ResolveInput(input_device_index)
                ELSE ResolveOutput(output_device_index),
     handle |-> Len(handles) + 1,
     open |-> TRUE]

\* The arguments Audio.record passes to _open_audio_stream (line 140): none,
\* whatever device_index holds.
RecordOpenArgs(index) == [input |-> -1, output |-> -1]

\* The arguments Audio.play passes to _open_audio_stream (line 169).
PlayOpenArgs(index) == [input |-> -1, output |-> index]

\* The state change of _open_audio_stream: a new PyAudio instance and a new
\* stream, both stored on the object.
DoOpen(record, args) ==
    /\ handles' = Append(handles, TRUE)
    /\ pyaudio_obj' = Len(handles) + 1
    /\ streams' = Append(streams, OpenedStream(record, args.input, args.output))
    /\ audio_stream' = Len(streams) + 1

\* _close_audio_stream: stop and close self.audio_stream.
ClosedStreams(strs, s) == [strs EXCEPT ![s].open = FALSE]

\* _close_audio_stream: terminate self.pyaudio_obj.
TerminatedHandles(hs, h) == [hs EXCEPT ![h] = FALSE]

StreamOpen(s) == s # 0 /\ streams[s].open

\* ----------------------------------------------------- capture threads
NoChunk == [id |-> -1, overrun |-> FALSE]

\* A thread is alive from start() until its target returns or raises.
ThreadAlive(t) == t # 0 /\ threads[t].pc \in {"check", "read", "append"}

AliveThreads == { t \in 1 .. Len(threads) : ThreadAlive(t) }

JoinedNoWait(t) == TRUE

\* thread.join() returns once the thread has ended.
Joined(t) == ~ThreadAlive(t)

\* Reads entered and not yet completed.
InFlight == Cardinality({ t \in 1 .. Len(threads) : threads[t].pc = "read" })

WorkerCheckIgnoresStop(t) ==
    /\ t \in 1 .. Len(threads)
    /\ threads[t].pc = "check"
    /\ Len(readLog) + InFlight < MaxChunks
    /\ threads' = [threads EXCEPT ![t].pc = "read", ![t].stream = audio_stream]
    /\ UNCHANGED << conv, host, handles, streams, file, recording, recorded_frames,
                    pyaudio_obj, audio_stream, microphones, speakers, pc, op,
                    device_index, thread, data, pos, readLog, played, calls,
                    enumCalls, exit, faulted, lastWrite >>

\* _record_thread, `while self.recording`: leave the loop, or enter the
\* blocking read of self.audio_stream.
WorkerCheck(t) ==
    /\ t \in 1 .. Len(threads)
    /\ threads[t].pc = "check"
    /\ IF recording
       THEN /\ Len(readLog) + InFlight < MaxChunks
            /\ threads' = [threads EXCEPT ![t].pc = "read", ![t].stream = audio_stream]
       ELSE threads' = [threads EXCEPT ![t].pc = "done"]
    /\ UNCHANGED << conv, host, handles, streams, file, recording, recorded_frames,
                    pyaudio_obj, audio_stream, microphones, speakers, pc, op,
                    device_index, thread, data, pos, readLog, played, calls,
                    enumCalls, exit, faulted, lastWrite >>

\* The blocking read returns a chunk of frames_per_buffer frames; with
\* exception_on_overflow=False an overrun is not raised, and the chunk of a
\* read that overran is returned like any other.
WorkerRead(t, overrun) ==
    /\ t \in 1 .. Len(threads)
    /\ threads[t].pc = "read"
    /\ streams[threads[t].stream].input
    /\ LET chunk == [id |-> Len(readLog), overrun |-> overrun]
       IN /\ threads' = [threads EXCEPT ![t].pc = "append", ![t].data = chunk]
          /\ readLog' = Append(readLog, chunk.id)
    /\ UNCHANGED << conv, host, handles, streams, file, recording, recorded_frames,
                    pyaudio_obj, audio_stream, microphones, speakers, pc, op,
                    device_index, thread, data, pos, played, calls, enumCalls,
                    exit, faulted, lastWrite >>

\* The read raises, and the thread ends with it: the stream is not an input
\* stream, or it was closed under the read.
WorkerReadError(t) ==
    /\ t \in 1 .. Len(threads)
    /\ threads[t].pc = "read"
    /\ \/ ~streams[threads[t].stream].input
       \/ ~streams[threads[t].stream].open
    /\ threads' = [threads EXCEPT ![t].pc = "error"]
    /\ UNCHANGED << conv, host, handles, streams, file, recording, recorded_frames,
                    pyaudio_obj, audio_stream, microphones, speakers, pc, op,
                    device_index, thread, data, pos, readLog, played, calls,
                    enumCalls, exit, faulted, lastWrite >>

\* self.recorded_frames.append(data)
WorkerAppend(t) ==
    /\ t \in 1 .. Len(threads)
    /\ threads[t].pc = "append"
    /\ recorded_frames' = Append(recorded_frames, threads[t].data.id)
    /\ threads' = [threads EXCEPT ![t].pc = "check", ![t].data = NoChunk,
                                  ![t].late = IF recording THEN @ ELSE @ + 1]
    /\ UNCHANGED << conv, host, handles, streams, file, recording, pyaudio_obj,
                    audio_stream, microphones, speakers, pc, op, device_index,
                    thread, data, pos, readLog, played, calls, enumCalls, exit,
                    faulted, lastWrite >>


\* --------------------------------------------------------- waveform file
\* Bytes of one chunk: frames_per_buffer frames of Channels samples.
ChunkSize == FramesPerBuffer * Channels * SampleWidth

\* The bytes of the chunk the id-th read returned; every read returns
\* different audio. recorded_frames holds the chunks by their ids.
ChunkBytes(id) == [i \in 1 .. ChunkSize |-> (id * ChunkSize + i) % 256]

\* b''.join(self.recorded_frames)
RECURSIVE JoinFrames(_)
JoinFrames(frames) ==
    IF frames = << >> THEN << >>
    ELSE ChunkBytes(Head(frames)) \o JoinFrames(Tail(frames))

WrittenFileWidthOne(frames) ==
    [exists |-> TRUE, nchannels |-> Channels, sampwidth |-> 1,
     framerate |-> SampleRate, payload |-> JoinFrames(frames)]

\* The file _write_to_file leaves at self.filepath.
WrittenFile(frames) ==
    [exists |-> TRUE, nchannels |-> Channels, sampwidth |-> SampleWidth,
     framerate |-> SampleRate, payload |-> JoinFrames(frames)]

\* The recording session as the object shows it (spec.md section 4.3):
\* Armed = capture stream open, Capturing = a capture thread runs and no stop
\* was requested, Draining = a capture thread runs after the stop request,
\* Stopped = threads ended and stream closed, Idle = nothing started yet.
SessionState ==
    IF AliveThreads # {} THEN (IF recording THEN "Capturing" ELSE "Draining")
    ELSE IF \E s \in 1 .. Len(streams) : streams[s].input /\ streams[s].open THEN "Armed"
    ELSE IF threads = << >> THEN "Idle"
    ELSE "Stopped"

\* The state change of _write_to_file; the PyAudio instance it creates for
\* get_sample_size is not terminated.
DoWrite(hs, by) ==
    /\ file' = WrittenFile(recorded_frames)
    /\ handles' = Append(hs, TRUE)
    /\ lastWrite' = [by |-> by, state |-> SessionState,
                     threadAlive |-> IF by = "record" THEN ThreadAlive(thread)
                                     ELSE AliveThreads # {},
                     streamOpen |-> StreamOpen(audio_stream)]

\* file.readframes(n) at read position p (in frames).
FrameWidth(f) == f.nchannels * f.sampwidth
NFrames(f) == Len(f.payload) \div FrameWidth(f)
FramesLeft(f, p, n) == IF NFrames(f) - p < n THEN NFrames(f) - p ELSE n
ReadFrames(f, p, n) ==
    SubSeq(f.payload, p * FrameWidth(f) + 1, (p + FramesLeft(f, p, n)) * FrameWidth(f))

\* ------------------------------------------------------------ Audio.record
\* Lines 140-143: open the stream, then wait for the start trigger.
RecordArm(index) ==
    /\ device_index' = index
    /\ LET args == RecordOpenArgs(index) IN DoOpen(TRUE, args)
    /\ pc' = "wait_start"

\* record(use_default): lines 134-143, up to the first blocking prompt.
RecordCall(use_default) ==
    /\ pc = "idle"
    /\ calls < MaxCalls
    /\ calls' = calls + 1
    /\ op' = "record"
    /\ exit' = "none"
    /\ thread' = 0
    /\ IF use_default
       THEN /\ RecordArm(-1)
            /\ UNCHANGED << microphones, speakers, enumCalls >>
       ELSE /\ DoEnumerate
            /\ pc' = "select"
            /\ UNCHANGED << device_index, handles, pyaudio_obj, streams, audio_stream >>
    /\ UNCHANGED << conv, host, file, recording, recorded_frames, data, pos, threads,
                    readLog, played, faulted, lastWrite >>

\* _select_device returns the index the user chose from the microphones.
RecordSelect(index) ==
    /\ pc = "select"
    /\ op = "record"
    /\ index \in IdSet(microphones)
    /\ RecordArm(index)
    /\ UNCHANGED << conv, host, file, recording, recorded_frames, microphones, speakers,
                    op, thread, data, pos, threads, readLog, played, calls,
                    enumCalls, exit, faulted, lastWrite >>

\* Lines 143-148: the start trigger fires; the capture thread is started.
StartTrigger ==
    /\ pc = "wait_start"
    /\ threads' = Append(threads, [pc |-> "check", stream |-> 0, data |-> NoChunk,
                                   late |-> 0])
    /\ thread' = Len(threads) + 1
    /\ pc' = "wait_stop"
    /\ UNCHANGED << conv, host, handles, streams, file, recording, recorded_frames,
                    pyaudio_obj, audio_stream, microphones, speakers, op,
                    device_index, data, pos, readLog, played, calls, enumCalls,
                    exit, faulted, lastWrite >>

\* input() raises at the start or at the stop prompt: record is left at once.
RecordInterrupt ==
    /\ pc \in {"wait_start", "wait_stop"}
    /\ pc' = "idle"
    /\ exit' = "error"
    /\ faulted' = TRUE
    /\ UNCHANGED << conv, host, handles, streams, file, recording, recorded_frames,
                    pyaudio_obj, audio_stream, microphones, speakers, op,
                    device_index, thread, data, pos, threads, readLog, played,
                    calls, enumCalls, lastWrite >>

StopTriggerNoSignal ==
    /\ pc = "wait_stop"
    /\ pc' = "join"
    /\ UNCHANGED << conv, host, handles, streams, file, recording, recorded_frames,
                    pyaudio_obj, audio_stream, microphones, speakers, op,
                    device_index, thread, data, pos, threads, readLog, played,
                    calls, enumCalls, exit, faulted, lastWrite >>

\* Lines 148-150: the stop trigger fires; self.recording = False.
StopTrigger ==
    /\ pc = "wait_stop"
    /\ recording' = FALSE
    /\ pc' = "join"
    /\ UNCHANGED << conv, host, handles, streams, file, recorded_frames, pyaudio_obj,
                    audio_stream, microphones, speakers, op, device_index, thread,
                    data, pos, threads, readLog, played, calls, enumCalls, exit,
                    faulted, lastWrite >>

\* Line 150: thread.join() returns.
RecordJoin ==
    /\ pc = "join"
    /\ Joined(thread)
    /\ pc' = "close"
    /\ UNCHANGED << conv, host, handles, streams, file, recording, recorded_frames,
                    pyaudio_obj, audio_stream, microphones, speakers, op,
                    device_index, thread, data, pos, threads, readLog, played,
                    calls, enumCalls, exit, faulted, lastWrite >>

\* Line 151: self._close_audio_stream().
RecordClose ==
    /\ pc = "close"
    /\ streams' = ClosedStreams(streams, audio_stream)
    /\ handles' = TerminatedHandles(handles, pyaudio_obj)
    /\ pc' = "write"
    /\ UNCHANGED << conv, host, file, recording, recorded_frames, pyaudio_obj,
                    audio_stream, microphones, speakers, op, device_index, thread,
                    data, pos, threads, readLog, played, calls, enumCalls, exit,
                    faulted, lastWrite >>

\* Line 154: self._write_to_file(), and record returns.
RecordWrite ==
    /\ pc = "write"
    /\ DoWrite(handles, "record")
    /\ pc' = "idle"
    /\ exit' = "ok"
    /\ UNCHANGED << conv, host, streams, recording, recorded_frames, pyaudio_obj,
                    audio_stream, microphones, speakers, op, device_index, thread,
                    data, pos, threads, readLog, played, calls, enumCalls, faulted >>

\* A direct call of _write_to_file between two calls.
WriteToFileCall ==
    /\ pc = "idle"
    /\ calls < MaxCalls
    /\ calls' = calls + 1
    /\ op' = "write"
    /\ DoWrite(handles, "direct")
    /\ exit' = "ok"
    /\ UNCHANGED << conv, host, streams, recording, recorded_frames, pyaudio_obj,
                    audio_stream, microphones, speakers, pc, device_index, thread,
                    data, pos, threads, readLog, played, enumCalls, faulted >>

\* -------------------------------------------------------------- Audio.play
\* Lines 168-172: open the file, open the output stream, read the first chunk.
\* wave.open raises when there is no file.
PlayBegin(index) ==
    /\ device_index' = index
    /\ IF file.exists
       THEN /\ LET args == PlayOpenArgs(index) IN DoOpen(FALSE, args)
            /\ data' = ReadFrames(file, 0, FramesPerBuffer)
            /\ pos' = FramesLeft(file, 0, FramesPerBuffer)
            /\ played' = << >>
            /\ pc' = "play_loop"
            /\ UNCHANGED << exit, faulted >>
       ELSE /\ pc' = "idle"
            /\ exit' = "error"
            /\ faulted' = TRUE
            /\ UNCHANGED << handles, pyaudio_obj, streams, audio_stream, data, pos,
                            played >>

\* play(use_default): lines 162-172, up to the first blocking call.
PlayCall(use_default) ==
    /\ pc = "idle"
    /\ calls < MaxCalls
    /\ calls' = calls + 1
    /\ op' = "play"
    /\ IF use_default
       THEN /\ PlayBegin(-1)
            /\ UNCHANGED << microphones, speakers, enumCalls >>
       ELSE /\ DoEnumerate
            /\ pc' = "select"
            /\ exit' = "none"
            /\ UNCHANGED << device_index, handles, pyaudio_obj, streams, audio_stream,
                            data, pos, played, faulted >>
    /\ UNCHANGED << conv, host, file, recording, recorded_frames, thread, threads,
                    readLog, lastWrite >>

\* _select_device(record=False) returns the index chosen from the speakers.
PlaySelect(index) ==
    /\ pc = "select"
    /\ op = "play"
    /\ index \in IdSet(speakers)
    /\ PlayBegin(index)
    /\ UNCHANGED << conv, host, file, recording, recorded_frames, microphones, speakers,
                    op, thread, threads, readLog, calls, enumCalls, lastWrite >>

\* Lines 173-175: the blocking write of the chunk returns; read the next one.
PlayWrite ==
    /\ pc = "play_loop"
    /\ data # << >>
    /\ played' = Append(played, data)
    /\ data' = ReadFrames(file, pos, FramesPerBuffer)
    /\ pos' = pos + FramesLeft(file, pos, FramesPerBuffer)
    /\ UNCHANGED << conv, host, handles, streams, file, recording, recorded_frames,
                    pyaudio_obj, audio_stream, microphones, speakers, pc, op,
                    device_index, thread, threads, readLog, calls, enumCalls, exit,
                    faulted, lastWrite >>

\* Line 174 raises: the with block closes the file and play is left.
PlayWriteError ==
    /\ pc = "play_loop"
    /\ data # << >>
    /\ pc' = "idle"
    /\ exit' = "error"
    /\ faulted' = TRUE
    /\ UNCHANGED << conv, host, handles, streams, file, recording, recorded_frames,
                    pyaudio_obj, audio_stream, microphones, speakers, op,
                    device_index, thread, data, pos, threads, readLog, played,
                    calls, enumCalls, lastWrite >>

\* Line 178: the file is exhausted; self._close_audio_stream(), play returns.
PlayClose ==
    /\ pc = "play_loop"
    /\ data = << >>
    /\ streams' = ClosedStreams(streams, audio_stream)
    /\ handles' = TerminatedHandles(handles, pyaudio_obj)
    /\ pc' = "idle"
    /\ exit' = "ok"
    /\ UNCHANGED << conv, host, file, recording, recorded_frames, pyaudio_obj,
                    audio_stream, microphones, speakers, op, device_index, thread,
                    data, pos, threads, readLog, played, calls, enumCalls, faulted,
                    lastWrite >>

\* -------------------------------------------------------------- Converter
\* A Converter built for transcription (speech_to_text=True) that has not run.
\* wav is the file found at its input path; output is the file at its output
\* path, text the transcription held in self.text.
NoOutput == [exists |-> FALSE, path |-> "", text |-> << >>]

ConvPaths == {"", "given"}

\* The files a Converter may be given: any header, up to MaxConvFrames frames.
ConvFiles ==
    { [exists |-> TRUE, nchannels |-> c, sampwidth |-> w, framerate |-> SampleRate,
       comptype |-> t, payload |-> [i \in 1 .. n * c * w |-> i % 256]] :
        c \in {1, 2}, w \in {1, 2}, t \in {"NONE", "ULAW"}, n \in 0 .. MaxConvFrames }

NewConverter(input_path, output_path, wav) ==
    [pc |-> "new", input_path |-> input_path, output_path |-> output_path,
     wav |-> wav, frames_read |-> 0, results |-> << >>, text |-> << >>,
     output |-> NoOutput, error |-> "none"]

\* No Converter is run in the specifications of the Audio object.
NoConverter == NewConverter("", "", NoFile)

\* Converter._process_paths with speech_to_text=True: defaults for the paths
\* that were not given.
ProcessPaths(c) ==
    [c EXCEPT !.input_path = IF c.input_path = "" THEN "recording.wav" ELSE c.input_path,
              !.output_path = IF c.output_path = "" THEN "transcription.txt"
                              ELSE c.output_path]

\* wave.open raises: no file, or a format tag that is not PCM.
WaveOpenFails(wav) == ~wav.exists \/ wav.comptype # "NONE"

HeaderRejectedNoWidth(wav) == wav.nchannels # 1 \/ wav.comptype # "NONE"

\* The test of _check_audio_file (line 72).
HeaderRejected(wav) == wav.nchannels # 1 \/ wav.sampwidth # 2 \/ wav.comptype # "NONE"

\* audio_to_text, line 115: _process_paths.
AudioToTextCall ==
    /\ conv.pc = "new"
    /\ conv' = [ProcessPaths(conv) EXCEPT !.pc = "check"]
    /\ UNCHANGED audioVars

\* audio_to_text, line 116: _check_audio_file reads the header and raises on
\* a file that is not mono 16-bit PCM.
CheckAudioFile ==
    /\ conv.pc = "check"
    /\ conv' = IF WaveOpenFails(conv.wav)
               THEN [conv EXCEPT !.pc = "failed",
                                 !.error = IF conv.wav.exists THEN "wave.Error"
                                           ELSE "FileNotFoundError"]
               ELSE IF HeaderRejected(conv.wav)
               THEN [conv EXCEPT !.pc = "failed", !.error = "ValueError"]
               ELSE [conv EXCEPT !.pc = "read"]
    /\ UNCHANGED audioVars

\* _read_audio_file, lines 87-93: one readframes call that returns frames;
\* the recognizer keeps the chunk's text when it accepts the waveform.
ConvReadChunk(accept) ==
    /\ conv.pc = "read"
    /\ ReadFrames(conv.wav, conv.frames_read, ConvChunkFrames) # << >>
    /\ conv' = [conv EXCEPT
                  !.frames_read = @ + FramesLeft(conv.wav, conv.frames_read, ConvChunkFrames),
                  !.results = IF accept THEN Append(@, conv.frames_read) ELSE @]
    /\ UNCHANGED audioVars

\* _read_audio_file, lines 89-99: the read returns nothing; the final result is
\* appended and the results are joined into self.text.
ConvReadEnd ==
    /\ conv.pc = "read"
    /\ ReadFrames(conv.wav, conv.frames_read, ConvChunkFrames) = << >>
    /\ conv' = [conv EXCEPT !.results = Append(@, -1),
                            !.text = Append(conv.results, -1),
                            !.pc = "write"]
    /\ UNCHANGED audioVars

\* The recognizer model cannot be loaded (line 82): nothing has been read.
ConvModelError ==
    /\ conv.pc = "read"
    /\ conv.frames_read = 0
    /\ conv' = [conv EXCEPT !.pc = "failed", !.error = "ModelError"]
    /\ UNCHANGED audioVars

\* audio_to_text, line 118: _write_text_file.
WriteTextFile ==
    /\ conv.pc = "write"
    /\ conv' = [conv EXCEPT
                  !.output = [exists |-> TRUE, path |-> conv.output_path, text |-> conv.text],
                  !.pc = "done"]
    /\ UNCHANGED audioVars

\* ---------------------------------------------------------- specifications
Init == host \in SessionHosts /\ InitObject /\ conv = NoConverter

Next ==
    \/ \E use_default \in BOOLEAN : RecordCall(use_default)
    \/ \E index \in 0 .. MaxDevices - 1 : RecordSelect(index)
    \/ StartTrigger
    \/ RecordInterrupt
    \/ StopTrigger
    \/ RecordJoin
    \/ RecordClose
    \/ RecordWrite
    \/ WriteToFileCall
    \/ \E use_default \in BOOLEAN : PlayCall(use_default)
    \/ \E index \in 0 .. MaxDevices - 1 : PlaySelect(index)
    \/ PlayWrite
    \/ PlayWriteError
    \/ PlayClose
    \/ SelectInterrupt
    \/ \E t \in 1 .. Len(threads) : WorkerCheck(t)
    \/ \E t \in 1 .. Len(threads), overrun \in BOOLEAN : WorkerRead(t, overrun)
    \/ \E t \in 1 .. Len(threads) : WorkerReadError(t)
    \/ \E t \in 1 .. Len(threads) : WorkerAppend(t)

Spec == Init /\ [][Next]_vars

InitDevices == host \in AllHosts /\ InitObject /\ conv = NoConverter

NextDevices ==
    \/ GetAvailableDevicesCall
    \/ \E record \in BOOLEAN : SelectDeviceCall(record)
    \/ \E index \in 0 .. MaxDevices - 1 : SelectDeviceReturn(index)
    \/ SelectInterrupt

SpecDevices == InitDevices /\ [][NextDevices]_vars

\* The scheduling the code relies on: a thread that can take its next step
\* takes it, a hardware read returns or raises, and the coordinator goes on once
\* join can return. The prompts may wait forever. A thread has one next step
\* at a time, so fairness of its steps together is fairness of each.
WorkerStep(t) ==
    \/ WorkerCheck(t)
    \/ \E overrun \in BOOLEAN : WorkerRead(t, overrun)
    \/ WorkerReadError(t)
    \/ WorkerAppend(t)

WorkerFairness(t) == WF_vars(WorkerStep(t))

\* The fair specification runs on one host: the devices a stream is opened on
\* have no part in how a session ends.
InitFair ==
    /\ host = [devs |-> ExampleDevices, defaultIn |-> 0, defaultOut |-> 1]
    /\ InitObject
    /\ conv = NoConverter

FairSpec ==
    /\ InitFair
    /\ [][Next]_vars
    /\ WF_vars(RecordJoin \/ RecordClose \/ RecordWrite)
    /\ \A t \in 1 .. MaxCalls : WorkerFairness(t)

\* A Converter run on a file, beside an Audio object that is not used.
InitConverter ==
    /\ host \in SessionHosts
    /\ InitObject
    /\ conv \in { NewConverter(i, o, w) :
                    i \in ConvPaths, o \in ConvPaths, w \in ConvFiles \cup {NoFile} }

NextConverter ==
    \/ AudioToTextCall
    \/ CheckAudioFile
    \/ \E accept \in BOOLEAN : ConvReadChunk(accept)
    \/ ConvReadEnd
    \/ ConvModelError
    \/ WriteTextFile

SpecConverter == InitConverter /\ [][NextConverter]_vars

\* ----------------------------------------------------------------- claims
InputStreams == { s \in 1 .. Len(streams) : streams[s].input }
OutputStreams == { s \in 1 .. Len(streams) : ~streams[s].input }

Ascending(ids) == \A k \in 1 .. Len(ids) : \A l \in 1 .. Len(ids) : k < l => ids[k] < ids[l]

\* C1: in every call of record, the join of the session's capture thread has
\* returned before its stream is closed, and the stream is closed before the
\* frames are serialized: when record is about to close the stream its thread
\* has ended, and when record serializes its thread has ended and its stream
\* is closed.
C1_JoinCloseWriteOrder ==
    /\ pc = "close" => ~ThreadAlive(thread)
    /\ pc = "write" => ~ThreadAlive(thread) /\ ~StreamOpen(audio_stream)
    /\ lastWrite.by = "record" => ~lastWrite.threadAlive /\ ~lastWrite.streamOpen

\* A session that captured a chunk has been joined, closed and serialized.
C1_Witness ==
    /\ pc = "idle" /\ op = "record" /\ exit = "ok"
    /\ lastWrite.by = "record"
    /\ recorded_frames # << >>
    /\ file.payload = JoinFrames(recorded_frames)

\* C2: a serialization attempted in a session state other than Stopped is
\* rejected: the file is never written while the session is Idle, Armed,
\* Capturing or Draining.
C2_SerializeOnlyWhenStopped == lastWrite.state \in {"none", "Stopped"}

\* C3: whenever play has been left, normally or by a failed write, the output
\* stream it opened is closed and its handle released.
C3_PlayClosesStreamOnEveryExit ==
    (pc = "idle" /\ op = "play") =>
        \A s \in OutputStreams : ~streams[s].open /\ ~handles[streams[s].handle]

\* C4: whenever record has been left, normally or by an error at the start or
\* the stop prompt, the capture stream is closed, its handle is released and
\* no capture thread runs.
C4_RecordReleasesOnEveryExit ==
    (pc = "idle" /\ op = "record") =>
        /\ \A s \in InputStreams : ~streams[s].open /\ ~handles[streams[s].handle]
        /\ AliveThreads = {}

\* C5: in every call of record, also a repeated one, the stream is open and no
\* worker exists while the coordinator waits for the start trigger, and the
\* worker is in its read loop for as long as the coordinator waits for the stop
\* trigger (it leaves the loop only after that trigger). Stated for the runs in
\* which no call has raised.
C5_SessionStatesInOrder ==
    ~faulted =>
        /\ pc = "wait_start" => StreamOpen(audio_stream) /\ AliveThreads = {}
        /\ pc = "wait_stop" => ThreadAlive(thread)

\* C6: the frame buffer is empty when a session is armed, for every call of
\* record. Stated for the runs in which no call has raised.
C6_BufferEmptyWhenArmed ==
    ~faulted => (pc = "wait_start" => recorded_frames = << >>)

\* C7: the frame buffer is the sequence of chunks the completed reads
\* returned, in the order the reads completed, but for the chunks read and
\* not yet appended: nothing dropped, duplicated or reordered.
C7_BufferIsReadLog ==
    \E k \in 0 .. Len(readLog) :
        /\ recorded_frames = SubSeq(readLog, 1, k)
        /\ { readLog[i] : i \in k + 1 .. Len(readLog) }
             = { threads[t].data.id : t \in { u \in 1 .. Len(threads) : threads[u].pc = "append" } }

\* C8: the stream record or play has just opened is on the device the caller
\* chose, and on the host default of its direction when the caller chose none.
C8_StreamOnRequestedDevice ==
    /\ pc = "wait_start" =>
         streams[audio_stream].device
           = (IF device_index = -1 THEN host.defaultIn ELSE device_index)
    /\ pc = "play_loop" =>
         streams[audio_stream].device
           = (IF device_index = -1 THEN host.defaultOut ELSE device_index)

\* C9: after any number of enumerations the lists are those of one enumeration
\* of the host, with every device at most once in each list.
C9_EnumerationRebuildsLists ==
    enumCalls >= 1 =>
        /\ Ids(microphones) = Ids(EnumerateFrom(host.devs, 0, << >>, << >>).microphones)
        /\ Ids(speakers) = Ids(EnumerateFrom(host.devs, 0, << >>, << >>).speakers)
        /\ Cardinality(IdSet(microphones)) = Len(microphones)
        /\ Cardinality(IdSet(speakers)) = Len(speakers)

\* C10: after the first enumeration of a fresh object, microphones holds
\* exactly the devices with max input channels > 0 and speakers exactly those
\* with max output channels > 0, each in ascending index order and under the
\* host's name; for the devices 0 = 2/0, 1 = 0/2, 2 = 1/1 the lists are
\* [0, 2] and [1, 2].
C10_ClassifiesByCapability ==
    enumCalls = 1 =>
        /\ IdSet(microphones) = InputIds(host.devs)
        /\ IdSet(speakers) = OutputIds(host.devs)
        /\ Ascending(Ids(microphones))
        /\ Ascending(Ids(speakers))
        /\ \A k \in 1 .. Len(microphones) :
             microphones[k].name = host.devs[microphones[k].id + 1].name
        /\ \A k \in 1 .. Len(speakers) :
             speakers[k].name = host.devs[speakers[k].id + 1].name
        /\ host.devs = ExampleDevices =>
             Ids(microphones) = << 0, 2 >> /\ Ids(speakers) = << 1, 2 >>

\* The example host has been enumerated once.
C10_Witness ==
    /\ enumCalls = 1
    /\ host.devs = ExampleDevices
    /\ Ids(microphones) = << 0, 2 >>
    /\ Ids(speakers) = << 1, 2 >>

\* C11: playing a file serialized from N chunks of one read each reads it
\* back as exactly those N chunks, byte for byte and in order, each non-empty,
\* and the read after the N-th is empty and ends the loop. The serialized
\* chunks are the first N of recorded_frames, which only grows.
C11_RoundTrip ==
    (op = "play" /\ (pc = "play_loop" \/ (pc = "idle" /\ exit = "ok"))) =>
        \E n \in 0 .. Len(recorded_frames) :
            /\ file.payload = JoinFrames(SubSeq(recorded_frames, 1, n))
            /\ Len(played) <= n
            /\ \A i \in 1 .. Len(played) :
                 played[i] # << >> /\ played[i] = ChunkBytes(recorded_frames[i])
            /\ pc = "play_loop" /\ Len(played) < n =>
                 data = ChunkBytes(recorded_frames[Len(played) + 1])
            /\ pc = "play_loop" /\ Len(played) = n => data = << >>
            /\ pc = "idle" => Len(played) = n /\ data = << >>

\* A file of two chunks has been played to its end.
C11_Witness ==
    /\ op = "play" /\ pc = "idle" /\ exit = "ok"
    /\ Len(played) = 2
    /\ played[1] \o played[2] = file.payload

\* The header of the Converter's file is not {channels 1, width 2, NONE}.
HeaderBad ==
    conv.wav.nchannels # 1 \/ conv.wav.sampwidth # 2 \/ conv.wav.comptype # "NONE"

\* C12: audio_to_text fails fast on the header. For a file whose header has
\* channels # 1, sample width # 2 or a compression type other than NONE, no
\* payload frame is ever read and no transcription is written, and the call
\* ends in failure at the header; for a mono 16-bit uncompressed file the
\* validation raises nothing and the frames are read.
C12_FailFastOnHeader ==
    /\ (conv.wav.exists /\ HeaderBad) =>
          /\ conv.pc \in {"new", "check", "failed"}
          /\ conv.frames_read = 0
          /\ ~conv.output.exists
          /\ conv.pc = "failed" => conv.error \in {"ValueError", "wave.Error"}
    /\ (conv.wav.exists /\ ~HeaderBad) =>
          /\ conv.error \notin {"ValueError", "wave.Error", "FileNotFoundError"}
          /\ conv.pc \in {"write", "done"} => conv.frames_read = NFrames(conv.wav)
          /\ conv.pc = "done" => conv.output.exists

\* A file of 8-bit samples with frames in it has been refused unread.
C12_Witness ==
    /\ conv.pc = "failed"
    /\ conv.error = "ValueError"
    /\ conv.wav.sampwidth = 1
    /\ conv.wav.payload # << >>
    /\ conv.frames_read = 0
    /\ ~conv.output.exists

\* C13: stopping is cooperative and bounded by one buffer. No capture thread
\* appends more than one chunk after the stop signal is set; the chunk of every
\* read that completed is in the buffer or about to be appended; and the stop
\* does not cut the session's thread short: while the coordinator joins, a read
\* of that thread is on its open capture stream, and the thread ends by leaving
\* its loop, not by an error.
C13_CooperativeStop ==
    /\ \A t \in 1 .. Len(threads) : threads[t].late <= 1
    /\ \A i \in 1 .. Len(readLog) :
          \/ \E k \in 1 .. Len(recorded_frames) : recorded_frames[k] = readLog[i]
          \/ \E t \in 1 .. Len(threads) :
                threads[t].pc = "append" /\ threads[t].data.id = readLog[i]
    /\ (pc = "join" /\ threads[thread].pc = "read") =>
          /\ streams[threads[thread].stream].open
          /\ streams[threads[thread].stream].input
    /\ pc \in {"join", "close", "write"} => threads[thread].pc # "error"

\* The stop signal was set during a read; its chunk was appended and the
\* thread has returned.
C13_Witness ==
    \E t \in 1 .. Len(threads) :
        /\ threads[t].pc = "done"
        /\ threads[t].late = 1
        /\ ~recording
        /\ recorded_frames # << >>

\* C14: under fair scheduling and reads that return, once the stop trigger of
\* a session has fired, the session eventually reaches Stopped with the file
\* written: its capture thread has seen the stop signal and returned, join has
\* returned, the stream is closed and record has serialized and returned.
C14_StopLeadsToStopped ==
    (pc = "join") ~>
        (/\ pc = "idle" /\ op = "record" /\ exit = "ok"
         /\ threads[thread].pc = "done"
         /\ ~StreamOpen(audio_stream)
         /\ lastWrite.by = "record"
         /\ file.exists)

\* A session whose thread was reading when the stop trigger fired has ended
\* with its file written.
C14_Witness ==
    /\ pc = "idle" /\ op = "record" /\ exit = "ok"
    /\ thread # 0 /\ threads[thread].pc = "done" /\ threads[thread].late = 1
    /\ ~StreamOpen(audio_stream)
    /\ file.exists /\ file.payload # << >>

====
